---- MODULE Spec2Model ----
(***************************************************************************)
(* A model of the bundler (src/bundler/src/main.rs): one run of main over  *)
(* a target file and a library directory.  Texts are sequences of lexical  *)
(* atoms (tokens and white space), syntax trees are records, the file      *)
(* system is a function from paths to optional files.  Module::insert is   *)
(* also run on its own (InsertSpec), the loop also with the order of its   *)
(* work left open (OrderSpec), and acsub (src/acsub/src/main.rs) is        *)
(* modelled as a process of its own (AcsubSpec).                           *)
(***************************************************************************)
EXTENDS Naturals, Integers, Sequences, FiniteSets, TLC

\* the bundler process
VARIABLES pc, nargs, target, fs, target_src, target_ast, out, queue, visited,
          root_mod, reads, lib_ts, lib_pretty, fell_back, stdout, exit, err

\* a module tree built by insert alone, and the inserts applied to it
VARIABLES t_mod, t_log

bundler_vars ==
  <<pc, nargs, target, fs, target_src, target_ast, out, queue, visited,
    root_mod, reads, lib_ts, lib_pretty, fell_back, stdout, exit, err>>

\* the acsub process (src/acsub/src/main.rs): its arguments, the config
\* file, what the commands it ran ended with, submit.rs, the clipboard
VARIABLES ac_pc, ac_argv, ac_cfg, ac_test, ac_bundler, submit_rs, clip,
          ac_exit

tree_vars == <<t_mod, t_log>>

acsub_vars ==
  <<ac_pc, ac_argv, ac_cfg, ac_test, ac_bundler, submit_rs, clip, ac_exit>>

\* the state a step of the bundler process leaves alone
outside == <<tree_vars, acsub_vars>>

vars == <<bundler_vars, tree_vars, acsub_vars>>

(***************************************************************************)
(* Bounds of the model.                                                    *)
(***************************************************************************)
\* reads of one key are counted up to ReadCap (a saturating counter)
ReadCap == 3
\* the work queue never holds more than MaxQueue keys in the runs modelled
MaxQueue == 8
\* the number of inserts applied to a tree built by insert alone
MaxInserts == 3

(***************************************************************************)
(* Names.                                                                  *)
(***************************************************************************)
\* the library root name: the literal "library" of the collector and of
\* internal_deps
LibName == "library"

\* identifiers that syn's Ident parser rejects as a module name
Keywords == {"super", "crate", "self"}

\* the identifiers of the model in the order of Rust's String comparison
\* (bytewise): the iteration order of BTreeMap<String, Module>
SegOrder == <<"A", "A2", "B", "B2", "C", "D", "Read", "S", "X", "Z",
              "a", "b", "c", "d", "e", "io", "library", "m", "std", "super">>

\* Option<T>: None is <<>>, Some(x) is <<x>>
None == <<>>
Some(x) == <<x>>

Min(a, b) == IF a < b THEN a ELSE b

(***************************************************************************)
(* Syntax: syn's UseTree, Item and File.                                   *)
(***************************************************************************)
P(id, t) == [t |-> "Path", ident |-> id, tree |-> t]
G(ts) == [t |-> "Group", items |-> ts]
N(id) == [t |-> "Name", ident |-> id]
R(id, as) == [t |-> "Rename", ident |-> id, rename |-> as]
Glob == [t |-> "Glob"]

Use(t) == [kind |-> "use", tree |-> t]
ModDecl(n) == [kind |-> "mod_decl", name |-> n]
InlineMod(n, its) == [kind |-> "mod_inline", name |-> n, items |-> its]
Fn(n) == [kind |-> "fn", name |-> n]

(***************************************************************************)
(* Tokens of an item, as quote! emits them.                                *)
(***************************************************************************)
RECURSIVE TreeTokens(_), GroupTokens(_, _)
TreeTokens(t) ==
  CASE t.t = "Path" -> <<t.ident, "::">> \o TreeTokens(t.tree)
    [] t.t = "Group" -> <<"{">> \o GroupTokens(t.items, 1) \o <<"}">>
    [] t.t = "Name" -> <<t.ident>>
    [] t.t = "Rename" -> <<t.ident, "as", t.rename>>
    [] t.t = "Glob" -> <<"*">>

GroupTokens(items, i) ==
  IF i > Len(items) THEN <<>>
  ELSE TreeTokens(items[i])
         \o (IF i < Len(items) THEN <<",">> ELSE <<>>)
         \o GroupTokens(items, i + 1)

RECURSIVE ItemTokens(_), ItemsTokens(_, _)
ItemTokens(it) ==
  CASE it.kind = "use" -> <<"use">> \o TreeTokens(it.tree) \o <<";">>
    [] it.kind = "mod_decl" -> <<"mod", it.name, ";">>
    [] it.kind = "mod_inline" ->
         <<"mod", it.name, "{">> \o ItemsTokens(it.items, 1) \o <<"}">>
    [] it.kind = "fn" -> <<"fn", it.name, "(", ")", "{", "}">>

ItemsTokens(items, i) ==
  IF i > Len(items) THEN <<>>
  ELSE ItemTokens(items[i]) \o ItemsTokens(items, i + 1)

(***************************************************************************)
(* Texts.  prettyplease::unparse lays the tokens out: a use declaration on *)
(* one line with no space around "::", a line break after ";", "{", "}".   *)
(* TokenStream::to_string puts one space between any two tokens.  No token *)
(* is the empty string.                                                    *)
(***************************************************************************)
\* whether token i of ts lies in a use declaration, before its ";"
InUse(ts, i) ==
  \E j \in 1..i : ts[j] = "use" /\ \A k \in j..i : ts[k] # ";"

\* the white space after token i: "" for none
PrettySep(ts, i) ==
  LET t == ts[i]
      n == IF i < Len(ts) THEN ts[i + 1] ELSE ""
  IN IF i = Len(ts) \/ t = ";" THEN "\n"
     ELSE IF InUse(ts, i)
          THEN (IF t \in {"use", ",", "as"} \/ n = "as" THEN " " ELSE "")
          ELSE IF t = "{" THEN (IF n = "}" THEN "" ELSE "\n")
          ELSE IF t = "}" THEN "\n"
          ELSE IF n \in {"(", ")", ";"} \/ t = "(" THEN ""
          ELSE " "

\* every token followed by its white space
unparse(ts) ==
  SelectSeq([i \in 1..(2 * Len(ts)) |->
               IF i % 2 = 1 THEN ts[(i + 1) \div 2] ELSE PrettySep(ts, i \div 2)],
            LAMBDA x : x # "")

to_string(ts) ==
  IF ts = <<>> THEN <<>>
  ELSE [i \in 1..(2 * Len(ts) - 1) |->
          IF i % 2 = 1 THEN ts[(i + 1) \div 2] ELSE " "]

\* whether pat occurs in text at position i
MatchAt(text, i, pat) ==
  /\ i + Len(pat) - 1 <= Len(text)
  /\ \A j \in 1..Len(pat) : text[i + j - 1] = pat[j]

\* str::replace: every non-overlapping occurrence, left to right, the
\* replacement not scanned again
RECURSIVE ReplaceFrom(_, _, _, _)
ReplaceFrom(text, i, pat, rep) ==
  LET hits == {m \in i..Len(text) : MatchAt(text, m, pat)}
  IN IF hits = {} THEN SubSeq(text, i, Len(text))
     ELSE CHOOSE r \in {SubSeq(text, i, m - 1) \o rep
                          \o ReplaceFrom(text, m + Len(pat), pat, rep) :
                        m \in {h \in hits : \A g \in hits : h <= g}} : TRUE

replace(text, pat, rep) == ReplaceFrom(text, 1, pat, rep)

\* the pattern and the replacement of the self-reference rewrite
UsePat == <<"use", " ", "crate", "::">>
UseRep == <<"use", " ", "crate", "::", "library", "::">>

\* the separator println! puts between the target and the library text
Separator == <<"\n", "\n", "// ===== bundled library =====", "\n", "\n">>

(***************************************************************************)
(* Files.  A file is its text and what parse_file makes of it.             *)
(***************************************************************************)
SrcFile(its) ==
  [ok |-> TRUE, items |-> its,
   src |-> <<"// src", "\n">> \o unparse(ItemsTokens(its, 1))]

BadFile == [ok |-> FALSE, items |-> <<>>, src |-> <<"fn", " ", "(", "(">>]

\* parse_file: Ok(ast) or Err
parse_ok(f) == f.ok
parse_file(f) == f.items

(***************************************************************************)
(* 1. collect_leaves: the leaves of a use tree under a prefix, in the      *)
(* order they are pushed on out.                                           *)
(***************************************************************************)
RECURSIVE collect_leaves(_, _), collect_group(_, _, _)
collect_leaves(t, prefix) ==
  CASE t.t = "Path" -> collect_leaves(t.tree, Append(prefix, t.ident))
    [] t.t = "Group" -> collect_group(t.items, 1, prefix)
    [] t.t = "Name" -> <<Append(prefix, t.ident)>>
    [] t.t = "Rename" -> <<Append(prefix, t.ident)>>
    [] t.t = "Glob" -> <<>>

collect_group(items, i, prefix) ==
  IF i > Len(items) THEN <<>>
  ELSE collect_leaves(items[i], prefix) \o collect_group(items, i + 1, prefix)

\* the use declarations syn's Visit reaches: those of the file and, in
\* order, those nested in its inline modules
RECURSIVE visit_items(_, _)
visit_items(items, i) ==
  IF i > Len(items) THEN <<>>
  ELSE LET it == items[i]
           here == CASE it.kind = "use" -> <<it.tree>>
                     [] it.kind = "mod_inline" -> visit_items(it.items, 1)
                     [] OTHER -> <<>>
       IN here \o visit_items(items, i + 1)

\* Collector::visit_item_use: one declaration of the target
collector_use(tree, root) ==
  IF tree.t = "Path" /\ tree.ident = root
  THEN collect_leaves(tree.tree, <<tree.ident>>)
  ELSE <<>>

RECURSIVE collector_from(_, _, _)
collector_from(uses, i, root) ==
  IF i > Len(uses) THEN <<>>
  ELSE collector_use(uses[i], root) \o collector_from(uses, i + 1, root)

\* c.visit_file(&target_ast); c.out
Collector(ast) == collector_from(visit_items(ast, 1), 1, LibName)

\* Vec::pop applied to a copy: the path without its last segment
PopLast(path) == SubSeq(path, 1, Len(path) - 1)

\* the filter_map that seeds the queue
RECURSIVE EntryKeysFrom(_, _)
EntryKeysFrom(leaves, i) ==
  IF i > Len(leaves) THEN <<>>
  ELSE (IF Len(leaves[i]) > 1 THEN <<PopLast(leaves[i])>> ELSE <<>>)
         \o EntryKeysFrom(leaves, i + 1)

\* a bug EntryKeys could have: the leaf segment not popped
EntryKeysNoPop(leaves) == leaves

EntryKeys(leaves) == EntryKeysFrom(leaves, 1)

(***************************************************************************)
(* 3. internal_deps: the leaves of the crate:: and super:: declarations of *)
(* a library file loaded under cur_path.                                   *)
(***************************************************************************)
deps_use(tree, cur) ==
  IF tree.t = "Path" /\ tree.ident = "crate"
  THEN collect_leaves(tree.tree, <<LibName>>)
  ELSE IF tree.t = "Path" /\ tree.ident = "super" /\ cur # <<>>
  THEN collect_leaves(tree.tree, PopLast(cur))
  ELSE <<>>

RECURSIVE deps_from(_, _, _)
deps_from(uses, i, cur) ==
  IF i > Len(uses) THEN <<>>
  ELSE deps_use(uses[i], cur) \o deps_from(uses, i + 1, cur)

internal_deps(ast, cur_path) == deps_from(visit_items(ast, 1), 1, cur_path)

\* the keys the loop pushes for one loaded file: each dep without its last
\* segment, unless the key is visited already
RECURSIVE PushDeps(_, _, _)
PushDeps(deps, i, vis) ==
  IF i > Len(deps) THEN <<>>
  ELSE (IF PopLast(deps[i]) \notin vis THEN <<PopLast(deps[i])>> ELSE <<>>)
         \o PushDeps(deps, i + 1, vis)

(***************************************************************************)
(* The file system below the library root, and lib_file.  A path is the    *)
(* segments below the root and an extension; the path with no segments and *)
(* extension "rs" is the root's own name with ".rs" set.                   *)
(***************************************************************************)
RsPath(segs) == [segs |-> segs, ext |-> "rs"]
DirPath(segs) == [segs |-> segs, ext |-> ""]
IndexPath(segs) == [segs |-> Append(segs, "mod"), ext |-> "rs"]

is_file(fsys, p) == p \in DOMAIN fsys /\ fsys[p] # None

\* fs::read_to_string: Some(text) for a regular file, None for Err
read_to_string(fsys, p) == IF is_file(fsys, p) THEN fsys[p] ELSE None

\* lib_file of a key with at least one segment (&segs[1..] panics on none)
lib_file(fsys, segs) ==
  LET p == DirPath(Tail(segs))
      cand == RsPath(Tail(segs))
  IN IF is_file(fsys, cand) THEN cand ELSE p

(***************************************************************************)
(* 2. The module tree.                                                     *)
(***************************************************************************)
DefaultModule == [code |-> None, children |-> <<>>]

\* a bug tree_key could have: the root segment dropped, as lib_file drops it
tree_key_below_root(path) == Tail(path)

\* the path root_mod.insert is called with: the whole key
tree_key(path) == path

\* BTreeMap::entry(k).or_default()
Entry(children, k) ==
  IF k \in DOMAIN children THEN children[k] ELSE DefaultModule

Put(children, k, m) ==
  [x \in (DOMAIN children) \cup {k} |-> IF x = k THEN m ELSE children[x]]

\* a bug insert could have: the node at the key replaced by a fresh one
RECURSIVE insert_fresh(_, _, _)
insert_fresh(m, segs, code) ==
  IF segs = <<>> THEN m
  ELSE LET head == Head(segs)
           rest == Tail(segs)
           child == Entry(m.children, head)
       IN IF rest = <<>>
          THEN [m EXCEPT !.children =
                  Put(@, head, [DefaultModule EXCEPT !.code = Some(code)])]
          ELSE [m EXCEPT !.children =
                  Put(@, head, insert_fresh(child, rest, code))]

RECURSIVE insert(_, _, _)
insert(m, segs, code) ==
  IF segs = <<>> THEN m
  ELSE LET head == Head(segs)
           rest == Tail(segs)
           child == Entry(m.children, head)
       IN IF rest = <<>>
          THEN [m EXCEPT !.children =
                  Put(@, head, [child EXCEPT !.code = Some(code)])]
          ELSE [m EXCEPT !.children = Put(@, head, insert(child, rest, code))]

\* a bug SortedKeys could have: the children in descending order
ReversedKeys(children) ==
  LET up == SelectSeq(SegOrder, LAMBDA s : s \in DOMAIN children)
  IN [i \in 1..Len(up) |-> up[Len(up) + 1 - i]]

\* the keys of a BTreeMap in iteration order
SortedKeys(children) == SelectSeq(SegOrder, LAMBDA s : s \in DOMAIN children)

strip_decls(items, child_names) ==
  SelectSeq(items,
            LAMBDA it : ~(it.kind = "mod_decl" /\ it.name \in DOMAIN child_names))

\* whether to_tokens reaches an expect("parse") that panics
RECURSIVE to_tokens_panics(_)
to_tokens_panics(m) ==
  \/ (m.code # None /\ ~parse_ok(m.code[1]))
  \/ \E n \in DOMAIN m.children : to_tokens_panics(m.children[n])

RECURSIVE to_tokens(_, _), kids_tokens(_, _, _)
to_tokens(m, name) ==
  LET own_tokens ==
        IF m.code = None THEN <<>>
        ELSE ItemsTokens(strip_decls(parse_file(m.code[1]), m.children), 1)
      kids == kids_tokens(m, SortedKeys(m.children), 1)
  IN IF name = None THEN own_tokens \o kids
     ELSE <<"pub", "mod", name[1], "{">> \o own_tokens \o kids \o <<"}">>

kids_tokens(m, names, i) ==
  IF i > Len(names) THEN <<>>
  ELSE to_tokens(m.children[names[i]], Some(names[i]))
         \o kids_tokens(m, names, i + 1)

\* syn::parse2::<File>: the only thing the rendered tokens can hold that a
\* parsed file cannot is a module block named by a keyword
reparse_ok(ts) ==
  \A i \in 1..Len(ts) :
    (ts[i] = "mod" /\ i < Len(ts)) => ts[i + 1] \notin Keywords

(***************************************************************************)
(* The inputs of a run: the argument count, the target file and the files  *)
(* below the library root.                                                 *)
(***************************************************************************)
KeyRoot == <<"library">>
KeyA == <<"library", "a">>
KeyB == <<"library", "b">>
KeyD == <<"library", "a", "d">>
KeySuperC == <<"library", "super", "c">>
KeyMD == <<"library", "a", "m", "d">>

\* a.rs: refers to b twice, declares its child d and refers to it
A_cyc == SrcFile(<<Use(P("crate", P("b", G(<<N("B"), R("B2", "X")>>)))),
                   ModDecl("d"),
                   InlineMod("m", <<Use(P("super", P("a", P("d", N("D")))))>>),
                   Fn("fa")>>)
\* a.rs: goes up two levels, refers to an item of the library root
A_sup == SrcFile(<<Use(P("super", P("super", P("c", N("C"))))),
                   Use(P("crate", N("X"))),
                   ModDecl("e"),
                   Fn("fa")>>)
\* a.rs: a group at the top of the declaration, a glob
A_grp == SrcFile(<<Use(G(<<P("crate", P("b", N("B")))>>)),
                   Use(P("crate", Glob)),
                   Fn("fa")>>)
\* a.rs: an inline module that declares a child kept in a file of its own
A_inl == SrcFile(<<InlineMod("m", <<ModDecl("d")>>),
                   Use(P("crate", P("a", P("m", P("d", N("D")))))),
                   Fn("fa")>>)
\* b.rs: refers back to a, twice
B_cyc == SrcFile(<<Use(P("crate", P("a", N("A")))),
                   Use(P("super", P("a", R("A", "Z")))),
                   Fn("fb")>>)
B_leaf == SrcFile(<<Fn("fb")>>)
D_leaf == SrcFile(<<Fn("fd"), Use(P("std", N("S")))>>)
\* a/d.rs: refers to b, two levels up
D_sup == SrcFile(<<Use(P("super", P("super", P("b", N("B"))))), Fn("fd")>>)
C_leaf == SrcFile(<<Fn("fc"), Use(P("crate", P("a", N("A"))))>>)
\* <root>.rs: a parent reference from the library root
R_sup == SrcFile(<<Use(P("super", N("X")))>>)

MkFs(a, b, bi, d, md, c, r) ==
  [p \in {RsPath(<<"a">>), RsPath(<<"b">>), IndexPath(<<"b">>),
          RsPath(<<"a", "d">>), RsPath(<<"a", "m", "d">>),
          RsPath(<<"super", "c">>), RsPath(<<>>)} |->
     CASE p = RsPath(<<"a">>) -> a
       [] p = RsPath(<<"b">>) -> b
       [] p = IndexPath(<<"b">>) -> bi
       [] p = RsPath(<<"a", "d">>) -> d
       [] p = RsPath(<<"a", "m", "d">>) -> md
       [] p = RsPath(<<"super", "c">>) -> c
       [] p = RsPath(<<>>) -> r]

Libraries ==
  {MkFs(a, b, bi, d, md, c, r) :
     a \in {None, Some(A_cyc), Some(A_sup), Some(A_grp), Some(A_inl),
            Some(BadFile)},
     b \in {None, Some(B_cyc), Some(B_leaf)},
     bi \in {None, Some(B_leaf)},
     d \in {None, Some(D_leaf), Some(D_sup)},
     md \in {None, Some(D_leaf)},
     c \in {None, Some(C_leaf)},
     r \in {None, Some(R_sup)}}

EmptyLibrary == MkFs(None, None, None, None, None, None, None)

T_none == SrcFile(<<Fn("main")>>)
T_std == SrcFile(<<Use(P("std", P("io", N("Read")))), Fn("main")>>)
T_a == SrcFile(<<Use(P("library", P("a", N("A")))), Fn("main")>>)
T_ab == SrcFile(<<Use(P("library", G(<<P("a", N("A")), P("a", R("A2", "Z")),
                                       P("b", Glob), P("b", N("B"))>>))),
                  Fn("main")>>)
T_grp == SrcFile(<<Use(G(<<P("library", P("a", N("A")))>>)), Fn("main")>>)
T_glob == SrcFile(<<Use(P("library", Glob)), Fn("main")>>)
T_x == SrcFile(<<Use(P("library", N("X"))), Fn("main")>>)
T_d == SrcFile(<<Use(P("library", P("a", P("d", N("D"))))), Fn("main")>>)

\* None: the target path cannot be read
Targets == {None, Some(BadFile), Some(T_none), Some(T_std), Some(T_a),
            Some(T_ab), Some(T_grp), Some(T_glob), Some(T_x), Some(T_d)}

\* the state after the process starts, before main's first statement
Start ==
  /\ pc = "args"
  /\ target_src = <<>>
  /\ target_ast = <<>>
  /\ out = <<>>
  /\ queue = <<>>
  /\ visited = {}
  /\ root_mod = DefaultModule
  /\ reads = <<>>
  /\ lib_ts = <<>>
  /\ lib_pretty = <<>>
  /\ fell_back = FALSE
  /\ stdout = <<>>
  /\ exit = None
  /\ err = "none"

\* nothing outside the bundler process has happened
TreeIdle ==
  /\ t_mod = DefaultModule
  /\ t_log = <<>>

AcIdle ==
  /\ ac_pc = "args"
  /\ ac_argv = <<"acsub">>
  /\ ac_cfg = "missing"
  /\ ac_test = None
  /\ ac_bundler = None
  /\ submit_rs = None
  /\ clip = None
  /\ ac_exit = None

Idle == TreeIdle /\ AcIdle

Init ==
  /\ nargs \in {2, 3, 4}
  /\ target \in Targets
  /\ fs \in Libraries
  /\ (nargs # 3) => (target = Some(T_none) /\ fs = EmptyLibrary)
  /\ Start
  /\ Idle

\* the libraries of the runs checked for termination: modules that refer to
\* each other, to themselves through a parent, to missing and to bad files
CyclicLibraries ==
  {MkFs(a, b, None, d, None, None, r) :
     a \in {None, Some(A_cyc), Some(A_sup), Some(BadFile)},
     b \in {None, Some(B_cyc)},
     d \in {None, Some(D_leaf)},
     r \in {None, Some(R_sup)}}

FairInit ==
  /\ nargs \in {2, 3}
  /\ target \in {None, Some(BadFile), Some(T_std), Some(T_a), Some(T_ab),
                  Some(T_x)}
  /\ fs \in CyclicLibraries
  /\ (nargs # 3) => (target = Some(T_std) /\ fs = EmptyLibrary)
  /\ Start
  /\ Idle

(***************************************************************************)
(* 4. main, step by step.                                                  *)
(***************************************************************************)
\* the process ends with a diagnostic on standard error and a status
Fail(kind, status) ==
  /\ pc' = "failed"
  /\ err' = kind
  /\ exit' = Some(status)

\* a bug args_ok could have: extra arguments accepted
args_ok_atleast(n) == n >= 3

\* args.len() counts the program name
args_ok(n) == n = 3

UsageError ==
  /\ pc = "args"
  /\ ~args_ok(nargs)
  /\ Fail("usage", 1)
  /\ UNCHANGED <<nargs, target, fs, target_src, target_ast, out, queue,
                 visited, root_mod, reads, lib_ts, lib_pretty, fell_back,
                 stdout>>
  /\ UNCHANGED outside

ArgsAccepted ==
  /\ pc = "args"
  /\ args_ok(nargs)
  /\ pc' = "read_target"
  /\ UNCHANGED <<nargs, target, fs, target_src, target_ast, out, queue,
                 visited, root_mod, reads, lib_ts, lib_pretty, fell_back,
                 stdout, exit, err>>
  /\ UNCHANGED outside

TargetReadError ==
  /\ pc = "read_target"
  /\ target = None
  /\ Fail("target_read", 1)
  /\ UNCHANGED <<nargs, target, fs, target_src, target_ast, out, queue,
                 visited, root_mod, reads, lib_ts, lib_pretty, fell_back,
                 stdout>>
  /\ UNCHANGED outside

ReadTarget ==
  /\ pc = "read_target"
  /\ target # None
  /\ target_src' = target[1].src
  /\ pc' = "parse_target"
  /\ UNCHANGED <<nargs, target, fs, target_ast, out, queue, visited,
                 root_mod, reads, lib_ts, lib_pretty, fell_back, stdout,
                 exit, err>>
  /\ UNCHANGED outside

TargetParseError ==
  /\ pc = "parse_target"
  /\ ~parse_ok(target[1])
  /\ Fail("target_parse", 1)
  /\ UNCHANGED <<nargs, target, fs, target_src, target_ast, out, queue,
                 visited, root_mod, reads, lib_ts, lib_pretty, fell_back,
                 stdout>>
  /\ UNCHANGED outside

\* parse_file(&target_src) and c.visit_file(&target_ast)
ParseAndCollect ==
  /\ pc = "parse_target"
  /\ parse_ok(target[1])
  /\ target_ast' = parse_file(target[1])
  /\ out' = Collector(parse_file(target[1]))
  /\ pc' = "collected"
  /\ UNCHANGED <<nargs, target, fs, target_src, queue, visited, root_mod,
                 reads, lib_ts, lib_pretty, fell_back, stdout, exit, err>>
  /\ UNCHANGED outside

\* a bug passthrough_text could have: println! in place of print!
passthrough_text_ln(src) == src \o <<"\n">>

\* print!("{target_src}")
passthrough_text(src) == src

Passthrough ==
  /\ pc = "collected"
  /\ out = <<>>
  /\ stdout' = stdout \o passthrough_text(target_src)
  /\ exit' = Some(0)
  /\ pc' = "done"
  /\ UNCHANGED <<nargs, target, fs, target_src, target_ast, out, queue,
                 visited, root_mod, reads, lib_ts, lib_pretty, fell_back,
                 err>>
  /\ UNCHANGED outside

\* the loop is entered with the entry keys in the queue in the order q
SeedQueueWith(q) ==
  /\ pc = "collected"
  /\ out # <<>>
  /\ root_mod' = DefaultModule
  /\ visited' = {}
  /\ queue' = q
  /\ pc' = "loop"
  /\ UNCHANGED <<nargs, target, fs, target_src, target_ast, out, reads,
                 lib_ts, lib_pretty, fell_back, stdout, exit, err>>
  /\ UNCHANGED outside

\* main seeds the queue in the order of the collected leaves
SeedQueue == SeedQueueWith(EntryKeys(out))

\* a bug is_new could have: the result of insert ignored
is_new_always(vis, path) == TRUE
\* a bug visited_insert could have: the key never recorded
visited_insert_none(vis, path) == vis

\* BTreeSet::insert: whether the key is new, and the set afterwards
is_new(vis, path) == path \notin vis
visited_insert(vis, path) == vis \cup {path}

\* one more call of lib_file and read_to_string for key k; at is the number
\* of keys resolved before k
RecordRead(rd, k, fp, ok) ==
  [x \in (DOMAIN rd) \cup {k} |->
     IF x = k
     THEN [n |-> Min((IF k \in DOMAIN rd THEN rd[k].n ELSE 0) + 1, ReadCap),
           fp |-> fp, ok |-> ok,
           at |-> IF k \in DOMAIN rd THEN rd[k].at ELSE Cardinality(DOMAIN rd)]
     ELSE rd[x]]

\* queue.pop() takes the last key
Popped == queue[Len(queue)]

\* the queue after the key at position i is taken from it
Without(q, i) == SubSeq(q, 1, i - 1) \o SubSeq(q, i + 1, Len(q))

\* The steps of the loop body are written for the key at any position i of
\* the queue; main takes the last one.

\* the key was visited before: continue
PopSkipAt(i) ==
  /\ pc = "loop"
  /\ i \in DOMAIN queue
  /\ ~is_new(visited, queue[i])
  /\ queue' = Without(queue, i)
  /\ UNCHANGED <<pc, nargs, target, fs, target_src, target_ast, out, visited,
                 root_mod, reads, lib_ts, lib_pretty, fell_back, stdout,
                 exit, err>>
  /\ UNCHANGED outside

\* the loop body for the key queue.pop() gives: the last one
PopSkip == PopSkipAt(Len(queue))

\* lib_file slices &segs[1..] of a key with no segment
PopPanicAt(i) ==
  /\ pc = "loop"
  /\ i \in DOMAIN queue
  /\ is_new(visited, queue[i])
  /\ queue[i] = <<>>
  /\ visited' = visited_insert(visited, queue[i])
  /\ queue' = Without(queue, i)
  /\ Fail("panic", 101)
  /\ UNCHANGED <<nargs, target, fs, target_src, target_ast, out, root_mod,
                 reads, lib_ts, lib_pretty, fell_back, stdout>>
  /\ UNCHANGED outside

\* the loop body for the key queue.pop() gives: the last one
PopPanic == PopPanicAt(Len(queue))

\* a bug PopMissing could have: the read error propagated with ?
PopMissingStrict ==
  /\ pc = "loop"
  /\ queue # <<>>
  /\ is_new(visited, Popped)
  /\ Popped # <<>>
  /\ read_to_string(fs, lib_file(fs, Popped)) = None
  /\ visited' = visited \cup {Popped}
  /\ reads' = RecordRead(reads, Popped, lib_file(fs, Popped), FALSE)
  /\ queue' = PopLast(queue)
  /\ Fail("lib_read", 1)
  /\ UNCHANGED <<nargs, target, fs, target_src, target_ast, out, root_mod,
                 lib_ts, lib_pretty, fell_back, stdout>>
  /\ UNCHANGED outside

\* read_to_string fails: continue
PopMissingAt(i) ==
  /\ pc = "loop"
  /\ i \in DOMAIN queue
  /\ is_new(visited, queue[i])
  /\ queue[i] # <<>>
  /\ read_to_string(fs, lib_file(fs, queue[i])) = None
  /\ visited' = visited_insert(visited, queue[i])
  /\ reads' = RecordRead(reads, queue[i], lib_file(fs, queue[i]), FALSE)
  /\ queue' = Without(queue, i)
  /\ UNCHANGED <<pc, nargs, target, fs, target_src, target_ast, out, root_mod,
                 lib_ts, lib_pretty, fell_back, stdout, exit, err>>
  /\ UNCHANGED outside

\* the loop body for the key queue.pop() gives: the last one
PopMissing == PopMissingAt(Len(queue))

\* a bug PopParseError could have: the parse error skipped like a read error
PopParseErrorLenient ==
  /\ pc = "loop"
  /\ queue # <<>>
  /\ is_new(visited, Popped)
  /\ Popped # <<>>
  /\ read_to_string(fs, lib_file(fs, Popped)) # None
  /\ LET code == read_to_string(fs, lib_file(fs, Popped))[1]
     IN /\ ~parse_ok(code)
        /\ root_mod' = insert(root_mod, tree_key(Popped), code)
  /\ visited' = visited_insert(visited, Popped)
  /\ reads' = RecordRead(reads, Popped, lib_file(fs, Popped), TRUE)
  /\ queue' = PopLast(queue)
  /\ UNCHANGED <<pc, nargs, target, fs, target_src, target_ast, out, lib_ts,
                 lib_pretty, fell_back, stdout, exit, err>>
  /\ UNCHANGED outside

\* the file is read and inserted, parse_file(&code)? fails
PopParseErrorAt(i) ==
  /\ pc = "loop"
  /\ i \in DOMAIN queue
  /\ is_new(visited, queue[i])
  /\ queue[i] # <<>>
  /\ read_to_string(fs, lib_file(fs, queue[i])) # None
  /\ LET code == read_to_string(fs, lib_file(fs, queue[i]))[1]
     IN /\ ~parse_ok(code)
        /\ root_mod' = insert(root_mod, tree_key(queue[i]), code)
  /\ visited' = visited_insert(visited, queue[i])
  /\ reads' = RecordRead(reads, queue[i], lib_file(fs, queue[i]), TRUE)
  /\ queue' = Without(queue, i)
  /\ Fail("lib_parse", 1)
  /\ UNCHANGED <<nargs, target, fs, target_src, target_ast, out, lib_ts,
                 lib_pretty, fell_back, stdout>>
  /\ UNCHANGED outside

\* the loop body for the key queue.pop() gives: the last one
PopParseError == PopParseErrorAt(Len(queue))

\* the file is read, inserted and parsed, its dependencies are pushed
PopLoadAt(i) ==
  /\ pc = "loop"
  /\ i \in DOMAIN queue
  /\ is_new(visited, queue[i])
  /\ queue[i] # <<>>
  /\ read_to_string(fs, lib_file(fs, queue[i])) # None
  /\ \E code \in {read_to_string(fs, lib_file(fs, queue[i]))[1]},
        vis \in {visited_insert(visited, queue[i])} :
       /\ parse_ok(code)
       /\ root_mod' = insert(root_mod, tree_key(queue[i]), code)
       /\ visited' = vis
       /\ \E deps \in {internal_deps(parse_file(code), queue[i])} :
            queue' = Without(queue, i) \o PushDeps(deps, 1, vis)
  /\ Len(queue') <= MaxQueue
  /\ reads' = RecordRead(reads, queue[i], lib_file(fs, queue[i]), TRUE)
  /\ UNCHANGED <<pc, nargs, target, fs, target_src, target_ast, out, lib_ts,
                 lib_pretty, fell_back, stdout, exit, err>>
  /\ UNCHANGED outside

\* the loop body for the key queue.pop() gives: the last one
PopLoad == PopLoadAt(Len(queue))

\* a bug Render could have: the parse2 error propagated with ?
RenderStrict ==
  /\ pc = "loop"
  /\ queue = <<>>
  /\ IF to_tokens_panics(root_mod)
     THEN /\ Fail("panic", 101)
          /\ UNCHANGED <<lib_ts, lib_pretty, fell_back>>
     ELSE \E ts \in {to_tokens(root_mod, None)} :
            IF reparse_ok(ts)
            THEN /\ lib_ts' = ts
                 /\ fell_back' = FALSE
                 /\ lib_pretty' = replace(unparse(ts), UsePat, UseRep)
                 /\ pc' = "rendered"
                 /\ UNCHANGED <<exit, err>>
            ELSE /\ Fail("render", 1)
                 /\ UNCHANGED <<lib_ts, lib_pretty, fell_back>>
  /\ UNCHANGED <<nargs, target, fs, target_src, target_ast, out, queue,
                 visited, root_mod, reads, stdout>>
  /\ UNCHANGED outside

\* to_tokens, parse2 and unparse or the fallback, then the rewrite
Render ==
  /\ pc = "loop"
  /\ queue = <<>>
  /\ IF to_tokens_panics(root_mod)
     THEN /\ Fail("panic", 101)
          /\ UNCHANGED <<lib_ts, lib_pretty, fell_back>>
     ELSE \E ts \in {to_tokens(root_mod, None)} :
          \E text \in {IF reparse_ok(ts) THEN unparse(ts) ELSE to_string(ts)} :
            /\ lib_ts' = ts
            /\ fell_back' = ~reparse_ok(ts)
            /\ lib_pretty' = replace(text, UsePat, UseRep)
            /\ pc' = "rendered"
            /\ UNCHANGED <<exit, err>>
  /\ UNCHANGED <<nargs, target, fs, target_src, target_ast, out, queue,
                 visited, root_mod, reads, stdout>>
  /\ UNCHANGED outside

\* println!("{target_src}\n\n// ===== bundled library =====\n\n{lib_pretty}")
Output ==
  /\ pc = "rendered"
  /\ stdout' = stdout \o target_src \o Separator \o lib_pretty \o <<"\n">>
  /\ exit' = Some(0)
  /\ pc' = "done"
  /\ UNCHANGED <<nargs, target, fs, target_src, target_ast, out, queue,
                 visited, root_mod, reads, lib_ts, lib_pretty, fell_back,
                 err>>
  /\ UNCHANGED outside

Next ==
  \/ UsageError
  \/ ArgsAccepted
  \/ TargetReadError
  \/ ReadTarget
  \/ TargetParseError
  \/ ParseAndCollect
  \/ Passthrough
  \/ SeedQueue
  \/ PopSkip
  \/ PopPanic
  \/ PopMissing
  \/ PopParseError
  \/ PopLoad
  \/ Render
  \/ Output

Spec == Init /\ [][Next]_vars

\* the program is sequential: a step that can be taken is taken
FairSpec == FairInit /\ [][Next]_vars /\ WF_vars(Next)

Terminated == pc \in {"done", "failed"}

(***************************************************************************)
(* Module::insert on its own: a tree that starts as Module::default() and  *)
(* takes any sequence of inserts of a few paths and texts.                 *)
(***************************************************************************)
InsertKeys ==
  {<<>>} \cup {<<x>> : x \in {"a", "b"}}
         \cup {<<x, y>> : x \in {"a", "b"}, y \in {"a", "b"}}

InsertTexts == {B_leaf, D_leaf}

InsertInit ==
  /\ nargs = 3
  /\ target = Some(T_none)
  /\ fs = EmptyLibrary
  /\ Start
  /\ Idle

InsertStep ==
  /\ Len(t_log) < MaxInserts
  /\ \E segs \in InsertKeys, code \in InsertTexts :
       /\ t_mod' = insert(t_mod, segs, code)
       /\ t_log' = Append(t_log, [key |-> segs, code |-> code])
  /\ UNCHANGED <<bundler_vars, acsub_vars>>

InsertSpec == InsertInit /\ [][InsertStep]_vars

(***************************************************************************)
(* acsub (src/acsub/src/main.rs): main and submit, step by step.  What a   *)
(* command ends with is a record: whether it could be started, and the     *)
(* exit code of its status, None when a signal ended it.  Exit codes are   *)
(* those of a Unix process, 0..255.                                        *)
(***************************************************************************)
ExitCodes == {0, 1, 101, 255}

NotStarted == [spawned |-> FALSE, code |-> None]
Exited(c) == [spawned |-> TRUE, code |-> Some(c)]
Killed == [spawned |-> TRUE, code |-> None]

\* Command::output(): the status and the captured standard output
Captured(st, text) == [spawned |-> st.spawned, code |-> st.code, stdout |-> text]

\* what the bundler prints for a target that uses module b of the library
Bundled ==
  T_a.src \o Separator
    \o replace(unparse(to_tokens(insert(DefaultModule, KeyB, B_leaf), None)),
               UsePat, UseRep)
    \o <<"\n">>

\* the ways the bundler subprocess can end: it writes to standard output
\* only when it exits with status 0
BundlerOutcomes ==
  {Captured(NotStarted, <<>>), Captured(Killed, <<>>),
   Captured(Exited(1), <<>>), Captured(Exited(101), <<>>),
   Captured(Exited(0), T_none.src), Captured(Exited(0), Bundled)}

Argvs ==
  {<<"acsub">>, <<"acsub", "rs">>, <<"acsub", "rs", "abc_a", "-v">>}
    \cup {<<"acsub", l, "abc_a">> : l \in {"rs", "py", "cpp", "go"}}
    \cup {<<"acsub", l, "abc_a", "--with-no-test">> :
            l \in {"rs", "py", "cpp", "go"}}

AcsubInit ==
  /\ nargs = 3
  /\ target = Some(T_none)
  /\ fs = EmptyLibrary
  /\ Start
  /\ TreeIdle
  /\ ac_pc = "args"
  /\ ac_argv \in Argvs
  /\ ac_cfg \in {"missing", "bad", "ok"}
  /\ ac_test = None
  /\ ac_bundler = None
  /\ submit_rs = None
  /\ clip = None
  /\ ac_exit = None

language == ac_argv[2]

\* !args[3..].contains("--with-no-test")
is_check ==
  \A i \in 4..Len(ac_argv) : ac_argv[i] # "--with-no-test"

\* a bug sample_failed could have: the exit code of the test not looked at
sample_failed_never(c) == FALSE

\* output.unwrap().code().unwrap() > 0
sample_failed(c) == c > 0

\* ExitStatus::success
success(st) == st.code = Some(0)

\* String::from_utf8_lossy(&bundler_out.stdout)
bundled_src == ac_bundler[1].stdout

\* the byte order mark, the text in UTF-16LE, two NUL bytes
utf8_to_utf16le_bytes(src) == <<"FF FE">> \o src \o <<"00 00">>

\* the process ends: exit(status), or a panic with status 101
AcExit(status) ==
  /\ ac_pc' = "exited"
  /\ ac_exit' = Some(status)

AcUsage ==
  /\ ac_pc = "args"
  /\ Len(ac_argv) < 3
  /\ AcExit(1)
  /\ UNCHANGED <<ac_argv, ac_cfg, ac_test, ac_bundler, submit_rs, clip>>
  /\ UNCHANGED <<bundler_vars, tree_vars>>

AcArgsAccepted ==
  /\ ac_pc = "args"
  /\ ~(Len(ac_argv) < 3)
  /\ ac_pc' = "config"
  /\ UNCHANGED <<ac_argv, ac_cfg, ac_test, ac_bundler, submit_rs, clip,
                 ac_exit>>
  /\ UNCHANGED <<bundler_vars, tree_vars>>

\* submit_url: ac_config.toml not found
AcConfigMissing ==
  /\ ac_pc = "config"
  /\ ac_cfg = "missing"
  /\ AcExit(1)
  /\ UNCHANGED <<ac_argv, ac_cfg, ac_test, ac_bundler, submit_rs, clip>>
  /\ UNCHANGED <<bundler_vars, tree_vars>>

\* submit_url: expect("failed to read content.") or expect("failed to parse.")
AcConfigBad ==
  /\ ac_pc = "config"
  /\ ac_cfg = "bad"
  /\ AcExit(101)
  /\ UNCHANGED <<ac_argv, ac_cfg, ac_test, ac_bundler, submit_rs, clip>>
  /\ UNCHANGED <<bundler_vars, tree_vars>>

AcConfigRead ==
  /\ ac_pc = "config"
  /\ ac_cfg = "ok"
  /\ ac_pc' = "download"
  /\ UNCHANGED <<ac_argv, ac_cfg, ac_test, ac_bundler, submit_rs, clip,
                 ac_exit>>
  /\ UNCHANGED <<bundler_vars, tree_vars>>

\* submit: rm -rf test (its result dropped), oj d could not be started
AcDownloadError ==
  /\ ac_pc = "download"
  /\ AcExit(1)
  /\ UNCHANGED <<ac_argv, ac_cfg, ac_test, ac_bundler, submit_rs, clip>>
  /\ UNCHANGED <<bundler_vars, tree_vars>>

\* oj d ran: its exit status is not looked at
AcDownloaded ==
  /\ ac_pc = "download"
  /\ ac_pc' = "lang"
  /\ UNCHANGED <<ac_argv, ac_cfg, ac_test, ac_bundler, submit_rs, clip,
                 ac_exit>>
  /\ UNCHANGED <<bundler_vars, tree_vars>>

\* py and cpp: todo!()
AcTodo ==
  /\ ac_pc = "lang"
  /\ language \in {"py", "cpp"}
  /\ AcExit(101)
  /\ UNCHANGED <<ac_argv, ac_cfg, ac_test, ac_bundler, submit_rs, clip>>
  /\ UNCHANGED <<bundler_vars, tree_vars>>

AcUnsupported ==
  /\ ac_pc = "lang"
  /\ language \notin {"rs", "py", "cpp"}
  /\ AcExit(1)
  /\ UNCHANGED <<ac_argv, ac_cfg, ac_test, ac_bundler, submit_rs, clip>>
  /\ UNCHANGED <<bundler_vars, tree_vars>>

AcRust ==
  /\ ac_pc = "lang"
  /\ language = "rs"
  /\ ac_pc' = IF is_check THEN "test" ELSE "bundle"
  /\ UNCHANGED <<ac_argv, ac_cfg, ac_test, ac_bundler, submit_rs, clip,
                 ac_exit>>
  /\ UNCHANGED <<bundler_vars, tree_vars>>

\* oj t could not be started
AcTestError ==
  /\ ac_pc = "test"
  /\ ac_test' = Some(NotStarted)
  /\ AcExit(1)
  /\ UNCHANGED <<ac_argv, ac_cfg, ac_bundler, submit_rs, clip>>
  /\ UNCHANGED <<bundler_vars, tree_vars>>

\* a signal ended oj t: code() is None and unwrap panics
AcTestKilled ==
  /\ ac_pc = "test"
  /\ ac_test' = Some(Killed)
  /\ AcExit(101)
  /\ UNCHANGED <<ac_argv, ac_cfg, ac_bundler, submit_rs, clip>>
  /\ UNCHANGED <<bundler_vars, tree_vars>>

AcSampleFailed ==
  /\ ac_pc = "test"
  /\ \E c \in ExitCodes :
       /\ sample_failed(c)
       /\ ac_test' = Some(Exited(c))
  /\ AcExit(1)
  /\ UNCHANGED <<ac_argv, ac_cfg, ac_bundler, submit_rs, clip>>
  /\ UNCHANGED <<bundler_vars, tree_vars>>

AcSamplePassed ==
  /\ ac_pc = "test"
  /\ \E c \in ExitCodes :
       /\ ~sample_failed(c)
       /\ ac_test' = Some(Exited(c))
  /\ ac_pc' = "bundle"
  /\ UNCHANGED <<ac_argv, ac_cfg, ac_bundler, submit_rs, clip, ac_exit>>
  /\ UNCHANGED <<bundler_vars, tree_vars>>

\* the bundler could not be started, or did not exit with status 0
AcBundlerFailed ==
  /\ ac_pc = "bundle"
  /\ \E r \in BundlerOutcomes :
       /\ ~(r.spawned /\ success(r))
       /\ ac_bundler' = Some(r)
  /\ AcExit(1)
  /\ UNCHANGED <<ac_argv, ac_cfg, ac_test, submit_rs, clip>>
  /\ UNCHANGED <<bundler_vars, tree_vars>>

AcBundled ==
  /\ ac_pc = "bundle"
  /\ \E r \in BundlerOutcomes :
       /\ r.spawned /\ success(r)
       /\ ac_bundler' = Some(r)
  /\ ac_pc' = "save"
  /\ UNCHANGED <<ac_argv, ac_cfg, ac_test, submit_rs, clip, ac_exit>>
  /\ UNCHANGED <<bundler_vars, tree_vars>>

\* File::create("submit.rs") fails
AcCreateError ==
  /\ ac_pc = "save"
  /\ AcExit(1)
  /\ UNCHANGED <<ac_argv, ac_cfg, ac_test, ac_bundler, submit_rs, clip>>
  /\ UNCHANGED <<bundler_vars, tree_vars>>

\* the file is created, write_all fails after part of the text
AcWriteError ==
  /\ ac_pc = "save"
  /\ \E n \in 0..(Len(bundled_src) - 1) :
       submit_rs' = Some(SubSeq(bundled_src, 1, n))
  /\ AcExit(1)
  /\ UNCHANGED <<ac_argv, ac_cfg, ac_test, ac_bundler, clip>>
  /\ UNCHANGED <<bundler_vars, tree_vars>>

AcSaved ==
  /\ ac_pc = "save"
  /\ submit_rs' = Some(bundled_src)
  /\ ac_pc' = "clip"
  /\ UNCHANGED <<ac_argv, ac_cfg, ac_test, ac_bundler, clip, ac_exit>>
  /\ UNCHANGED <<bundler_vars, tree_vars>>

\* clip.exe could not be started
AcClipError ==
  /\ ac_pc = "clip"
  /\ AcExit(1)
  /\ UNCHANGED <<ac_argv, ac_cfg, ac_test, ac_bundler, submit_rs, clip>>
  /\ UNCHANGED <<bundler_vars, tree_vars>>

\* clip.exe is started, writing to its standard input fails: unwrap panics
AcClipBroken ==
  /\ ac_pc = "clip"
  /\ clip' = Some(<<>>)
  /\ AcExit(101)
  /\ UNCHANGED <<ac_argv, ac_cfg, ac_test, ac_bundler, submit_rs>>
  /\ UNCHANGED <<bundler_vars, tree_vars>>

\* clip.exe takes the text; submit returns Ok and main ends with status 0
AcCopied ==
  /\ ac_pc = "clip"
  /\ clip' = Some(utf8_to_utf16le_bytes(bundled_src))
  /\ AcExit(0)
  /\ UNCHANGED <<ac_argv, ac_cfg, ac_test, ac_bundler, submit_rs>>
  /\ UNCHANGED <<bundler_vars, tree_vars>>

AcsubNext ==
  \/ AcUsage
  \/ AcArgsAccepted
  \/ AcConfigMissing
  \/ AcConfigBad
  \/ AcConfigRead
  \/ AcDownloadError
  \/ AcDownloaded
  \/ AcTodo
  \/ AcUnsupported
  \/ AcRust
  \/ AcTestError
  \/ AcTestKilled
  \/ AcSampleFailed
  \/ AcSamplePassed
  \/ AcBundlerFailed
  \/ AcBundled
  \/ AcCreateError
  \/ AcWriteError
  \/ AcSaved
  \/ AcClipError
  \/ AcClipBroken
  \/ AcCopied

AcsubSpec == AcsubInit /\ [][AcsubNext]_vars

(***************************************************************************)
(* The same run with the order of the work left open: the entry keys are   *)
(* queued in any order and the loop takes any pending key.                 *)
(***************************************************************************)
Orders(q) == {[i \in 1..Len(q) |-> q[f[i]]] : f \in Permutations(1..Len(q))}

SeedAnyOrder == \E q \in Orders(EntryKeys(out)) : SeedQueueWith(q)
TakeSkip == \E i \in DOMAIN queue : PopSkipAt(i)
TakePanic == \E i \in DOMAIN queue : PopPanicAt(i)
TakeMissing == \E i \in DOMAIN queue : PopMissingAt(i)
TakeParseError == \E i \in DOMAIN queue : PopParseErrorAt(i)
TakeLoad == \E i \in DOMAIN queue : PopLoadAt(i)

OrderNext ==
  \/ UsageError
  \/ ArgsAccepted
  \/ TargetReadError
  \/ ReadTarget
  \/ TargetParseError
  \/ ParseAndCollect
  \/ Passthrough
  \/ SeedAnyOrder
  \/ TakeSkip
  \/ TakePanic
  \/ TakeMissing
  \/ TakeParseError
  \/ TakeLoad
  \/ Render
  \/ Output

OrderSpec == Init /\ [][OrderNext]_vars

TypeOK ==
  /\ pc \in {"args", "read_target", "parse_target", "collected", "loop",
             "rendered", "done", "failed"}
  /\ Len(queue) <= MaxQueue
  /\ \A k \in DOMAIN reads : reads[k].n \in 1..ReadCap

(***************************************************************************)
(* What the claims speak of.                                               *)
(***************************************************************************)
Range(seq) == {seq[i] : i \in DOMAIN seq}

\* the text stored in the tree at a key, None when there is none
RECURSIVE node_code(_, _)
node_code(m, segs) ==
  IF segs = <<>> THEN m.code
  ELSE IF Head(segs) \in DOMAIN m.children
       THEN node_code(m.children[Head(segs)], Tail(segs))
       ELSE None

\* every leaf of a use tree as a full path, whatever the shape of the tree
RECURSIVE TreeLeaves(_, _)
TreeLeaves(t, prefix) ==
  CASE t.t = "Path" -> TreeLeaves(t.tree, Append(prefix, t.ident))
    [] t.t = "Group" ->
         UNION {TreeLeaves(t.items[i], prefix) : i \in DOMAIN t.items}
    [] t.t = "Name" -> {Append(prefix, t.ident)}
    [] t.t = "Rename" -> {Append(prefix, t.ident)}
    [] t.t = "Glob" -> {}

\* every leaf of every import declaration of a file
FileLeaves(ast) == UNION {TreeLeaves(u, <<>>) : u \in Range(visit_items(ast, 1))}

\* the leaves of a file that start with the library root name
LibraryLeaves(ast) == {l \in FileLeaves(ast) : l[1] = LibName}

\* the ModuleKey of a leaf reference: its containing module
KeysOf(leaves) == {PopLast(l) : l \in {x \in leaves : Len(x) > 1}}

\* the entry points of the target
EntryPointKeys == KeysOf(LibraryLeaves(target_ast))

\* an internal reference of a file loaded under key k, rooted: a
\* self-reference at the library root, a parent-reference one level up from k
Rooted(k, l) ==
  IF l[1] = "crate" THEN <<LibName>> \o Tail(l) ELSE PopLast(k) \o Tail(l)

InternalKeys(k, ast) ==
  KeysOf({Rooted(k, l) : l \in {x \in FileLeaves(ast) : x[1] \in {"crate", "super"}}})

\* the file the run loads for key k, None when it loads none
LoadedFile(k) ==
  IF k = <<>> THEN None
  ELSE LET f == read_to_string(fs, lib_file(fs, k))
       IN IF f # None /\ parse_ok(f[1]) THEN f ELSE None

\* the keys reachable from a set of keys through the internal references of
\* the files loaded
RECURSIVE ReachFrom(_)
ReachFrom(S) ==
  LET S2 == S \cup UNION {InternalKeys(k, parse_file(LoadedFile(k)[1])) :
                            k \in {x \in S : LoadedFile(x) # None}}
  IN IF S2 = S THEN S ELSE ReachFrom(S2)

Reachable == ReachFrom(EntryPointKeys)

\* neither the plain file nor the directory-index file of a key exists
NoBackingFile(k) ==
  /\ ~is_file(fs, RsPath(Tail(k)))
  /\ ~is_file(fs, IndexPath(Tail(k)))

\* the cause of a fatal error is present in the run
FatalCause ==
  \/ nargs # 3
  \/ target = None
  \/ ~parse_ok(target[1])
  \/ \E k \in DOMAIN reads : reads[k].ok /\ ~parse_ok(fs[reads[k].fp][1])
  \/ <<>> \in visited

\* the emitted library text without its white space
EmittedTokens == SelectSeq(lib_pretty, LAMBDA x : x \notin {" ", "\n"})

\* the node of the tree at a path, a node with nothing when there is none
RECURSIVE node_at(_, _)
node_at(m, segs) ==
  IF segs = <<>> THEN m
  ELSE IF Head(segs) \in DOMAIN m.children
       THEN node_at(m.children[Head(segs)], Tail(segs))
       ELSE DefaultModule

\* the number of blocks open before token i
Depth(ts, i) ==
  Cardinality({j \in 1..(i - 1) : ts[j] = "{"})
    - Cardinality({j \in 1..(i - 1) : ts[j] = "}"})

\* where the rendered block of module n opens in ts, at the outermost level
BlockStarts(ts, n) ==
  {i \in 1..(Len(ts) - 3) :
     /\ ts[i] = "pub" /\ ts[i + 1] = "mod" /\ ts[i + 2] = n /\ ts[i + 3] = "{"
     /\ Depth(ts, i) = 0}

\* the tokens between the braces of the rendered block of the node at a
\* path, <<>> when no such block is rendered
RECURSIVE BlockOf(_, _)
BlockOf(ts, segs) ==
  IF segs = <<>> THEN ts
  ELSE IF BlockStarts(ts, Head(segs)) = {} THEN <<>>
  ELSE LET i == CHOOSE x \in BlockStarts(ts, Head(segs)) : TRUE
           j == CHOOSE x \in (i + 4)..Len(ts) :
                  /\ ts[x] = "}"
                  /\ Depth(ts, x) = 1
                  /\ \A y \in (i + 4)..(x - 1) : ~(ts[y] = "}" /\ Depth(ts, y) = 1)
       IN BlockOf(SubSeq(ts, i + 4, j - 1), Tail(segs))

\* the part of a block before the blocks of the children: the node's items
OwnPart(b) ==
  LET kids == {i \in 1..Len(b) : b[i] = "pub" /\ Depth(b, i) = 0}
  IN IF kids = {} THEN b
     ELSE SubSeq(b, 1, (CHOOSE i \in kids : \A j \in kids : i <= j) - 1)

\* how often module n is declared or defined directly in a block
DeclCount(b, n) ==
  Cardinality({i \in 1..(Len(b) - 1) :
                 b[i] = "mod" /\ b[i + 1] = n /\ Depth(b, i) = 0})

\* the keys whose file is stored in the tree
StoredKeys == {k \in DOMAIN reads : reads[k].ok}

\* the keys the loop pushes for the file loaded under key k, visited or not
PushedKeys(k) ==
  Range(PushDeps(internal_deps(parse_file(LoadedFile(k)[1]), k), 1, {}))

\* the keys a run visits when nothing stops it, whatever the order
RECURSIVE VisitFrom(_)
VisitFrom(S) ==
  LET S2 == S \cup UNION {PushedKeys(k) : k \in {x \in S : LoadedFile(x) # None}}
  IN IF S2 = S THEN S ELSE VisitFrom(S2)

AllVisited == VisitFrom(Range(EntryKeys(out)))

\* a key among them stops the run: no segment, or a file that does not parse
Stopper(k) ==
  \/ k = <<>>
  \/ /\ read_to_string(fs, lib_file(fs, k)) # None
     /\ ~parse_ok(read_to_string(fs, lib_file(fs, k))[1])

\* the tree that holds the files of a set of keys
RECURSIVE TreeOf(_, _)
TreeOf(S, m) ==
  IF S = {} THEN m
  ELSE LET k == CHOOSE x \in S : TRUE
       IN TreeOf(S \ {k}, insert(m, k, read_to_string(fs, lib_file(fs, k))[1]))

ExpectedTree ==
  TreeOf({k \in AllVisited : LoadedFile(k) # None}, DefaultModule)

\* the paths of the nodes of a tree
RECURSIVE NodePaths(_, _)
NodePaths(m, prefix) ==
  {prefix} \cup UNION {NodePaths(m.children[n], Append(prefix, n)) :
                         n \in DOMAIN m.children}

\* the names of the blocks rendered directly in a block, in their order
PubNames(b) ==
  LET idx == SelectSeq([i \in 1..Len(b) |-> i],
                       LAMBDA i : b[i] = "pub" /\ Depth(b, i) = 0)
  IN [j \in 1..Len(idx) |-> b[idx[j] + 2]]

SegIndex(n) == CHOOSE i \in DOMAIN SegOrder : SegOrder[i] = n

Ascending(names) ==
  \A i, j \in DOMAIN names : i < j => SegIndex(names[i]) < SegIndex(names[j])

\* the module a parent-relative import tree denotes for a file loaded under
\* key k: one segment of k dropped for every leading super, then the path
\* of each leaf without the leaf
RECURSIVE ParentKeys(_, _)
ParentKeys(k, t) ==
  IF t.t = "Path" /\ t.ident = "super"
  THEN ParentKeys(PopLast(k), t.tree)
  ELSE {PopLast(l) : l \in TreeLeaves(t, k)}

\* the import declarations of a file that start with the path segment super
SuperUses(ast) ==
  {u \in Range(visit_items(ast, 1)) : u.t = "Path" /\ u.ident = "super"}

\* the paths of a sequence and all that they start with
Prefixes(keys) ==
  UNION {{SubSeq(k, 1, n) : n \in 0..Len(k)} : k \in keys}

\* the keys of the inserts applied so far that name a node below the root
LoggedKeys == {t_log[i].key : i \in DOMAIN t_log} \ {<<>>}

\* the text of the last insert at key k
LastText(k) ==
  t_log[CHOOSE i \in DOMAIN t_log :
          /\ t_log[i].key = k
          /\ \A j \in DOMAIN t_log : t_log[j].key = k => j <= i].code

(***************************************************************************)
(* The claims.                                                             *)
(***************************************************************************)
\* C1: when the collector finds no leaf reference in the target, the run
\* writes exactly the target's text to standard output, exits with status 0
\* and reads no library file; a target with no import that names the library
\* root is such a target.
C1_Passthrough ==
  /\ (pc = "done" /\ out = <<>>) =>
       /\ stdout = target[1].src
       /\ exit = Some(0)
       /\ DOMAIN reads = {}
       /\ root_mod = DefaultModule
  /\ pc \in {"loop", "rendered"} => out # <<>>
  /\ (pc \in {"collected", "done"} /\ LibraryLeaves(target_ast) = {}) => out = <<>>

\* C1 witness: a passthrough run of a target that has an import
C1_Witness ==
  /\ pc = "done"
  /\ out = <<>>
  /\ stdout # <<>>
  /\ \E i \in DOMAIN target_ast : target_ast[i].kind = "use"

\* C2 as stated: after a successful run every key reachable from the entry
\* points through the internal references of the loaded files is visited.
C2_ClosureComplete == pc = "done" => Reachable \subseteq visited

\* C3 as stated: a key with no backing file makes the run end with a
\* non-zero status and nothing on standard output.
C3_MissingAborts ==
  (\E k \in DOMAIN reads : NoBackingFile(k)) =>
     /\ stdout = <<>>
     /\ Terminated => exit \notin {None, Some(0)}

\* C3 amended: a key whose file cannot be read is skipped: it is visited,
\* nothing is stored in the tree for it, and the run goes on; a run fails
\* only when a fatal cause is present, and a run that gets through the loop
\* writes its output and exits with status 0.
C3_MissingSkipped ==
  /\ \A k \in DOMAIN reads :
       ~reads[k].ok => (k \in visited /\ node_code(root_mod, k) = None)
  /\ pc = "failed" => FatalCause
  /\ (pc = "done" /\ out # <<>>) => (stdout # <<>> /\ exit = Some(0))

\* C3 witness: a finished run that skipped a key with no backing file
C3_Witness ==
  /\ pc = "done"
  /\ exit = Some(0)
  /\ stdout # <<>>
  /\ \E k \in DOMAIN reads : ~reads[k].ok /\ NoBackingFile(k)

\* C4 as stated: the resolver gives the plain file when it exists, else the
\* directory-index file, so a module in directory form only is loaded.
C4_Resolution ==
  \A k \in DOMAIN reads :
    /\ is_file(fs, RsPath(Tail(k))) => reads[k].fp = RsPath(Tail(k))
    /\ (~is_file(fs, RsPath(Tail(k))) /\ is_file(fs, IndexPath(Tail(k)))) =>
         /\ reads[k].fp = IndexPath(Tail(k))
         /\ reads[k].ok
         /\ node_code(root_mod, k) # None

\* C5 as stated: in the emitted library text every crate-rooted reference is
\* rooted at crate::library, once, on the pretty-printed and on the fallback
\* path.
C5_Rewrite ==
  (pc = "done" /\ out # <<>>) =>
     \A i \in DOMAIN EmittedTokens :
       EmittedTokens[i] = "crate" =>
         /\ i + 3 <= Len(EmittedTokens)
         /\ EmittedTokens[i + 1] = "::"
         /\ EmittedTokens[i + 2] = "library"
         /\ EmittedTokens[i + 3] = "::"
         /\ (i + 4 <= Len(EmittedTokens) => EmittedTokens[i + 4] # "library")

\* C6: the file of a key is resolved and read at most once in a run.
C6_AtMostOnce == \A k \in DOMAIN reads : reads[k].n <= 1

\* C6 witness: a second copy of a key that was read is at the top of the
\* queue
C6_Witness ==
  /\ pc = "loop"
  /\ queue # <<>>
  /\ Popped \in DOMAIN reads
  /\ reads[Popped].n = 1
  /\ reads[Popped].ok

\* C7: every run ends: the loop empties the queue or the run aborts.
C7_Terminates == <>Terminated

\* C7 witness: a finished run over two modules that refer to each other
C7_Witness ==
  /\ pc = "done"
  /\ \E j, k \in DOMAIN reads :
       /\ j # k
       /\ LoadedFile(j) # None
       /\ LoadedFile(k) # None
       /\ k \in InternalKeys(j, parse_file(LoadedFile(j)[1]))
       /\ j \in InternalKeys(k, parse_file(LoadedFile(k)[1]))

\* C8: every key whose file the run reads (or tries to) is reachable from
\* the entry points through the internal references of the loaded files.
C8_ClosureMinimal == \A k \in DOMAIN reads : k \in Reachable

\* C8 witness: a finished run that read a key found in a library file and
\* left a library file unread
C8_Witness ==
  /\ pc = "done"
  /\ \E k \in DOMAIN reads : reads[k].ok /\ k \notin EntryPointKeys
  /\ \E p \in DOMAIN fs :
       fs[p] # None /\ \A k \in DOMAIN reads : reads[k].fp # p

\* C9: standard output is written only by a run that ends with status 0; a
\* failed run has a non-zero status and wrote nothing; a run in which a fatal
\* cause is present does not end with status 0.
C9_NoPartialOutput ==
  /\ stdout # <<>> => (pc = "done" /\ exit = Some(0))
  /\ pc = "failed" => (exit \notin {None, Some(0)} /\ stdout = <<>>)
  /\ pc = "done" => ~FatalCause

\* C9 witness: a run that fails on a library file after loading another
C9_Witness ==
  /\ pc = "failed"
  /\ err = "lib_parse"
  /\ \E k \in DOMAIN reads : reads[k].ok /\ parse_ok(fs[reads[k].fp][1])

\* C10 as stated: the collector's output is every non-glob leaf of every
\* import declaration that starts with the library root name, and nothing
\* else.
C10_Collector ==
  pc \in {"collected", "loop", "rendered", "done"} =>
    Range(out) = LibraryLeaves(target_ast)

\* C11 as stated: the items rendered for a node with text are its items in
\* order without the body-less declarations of its children, and every child
\* is declared exactly once in the block of its parent.
C11_Dedup ==
  pc \in {"rendered", "done"} =>
    \A k \in StoredKeys :
      LET node == node_at(root_mod, k)
          b == BlockOf(lib_ts, k)
          kept == SelectSeq(parse_file(node.code[1]),
                            LAMBDA it : ~(it.kind = "mod_decl"
                                          /\ it.name \in DOMAIN node.children))
      IN /\ OwnPart(b) = ItemsTokens(kept, 1)
         /\ \A n \in DOMAIN node.children : DeclCount(b, n) = 1

\* the first half of C11 alone: what is rendered for a node's own text
C11_ItemsKept ==
  pc \in {"rendered", "done"} =>
    \A k \in StoredKeys :
      LET node == node_at(root_mod, k)
          kept == SelectSeq(parse_file(node.code[1]),
                            LAMBDA it : ~(it.kind = "mod_decl"
                                          /\ it.name \in DOMAIN node.children))
      IN OwnPart(BlockOf(lib_ts, k)) = ItemsTokens(kept, 1)

\* C12: the tree, the visited set, the rendered tokens and the output of a
\* run that gets through the loop are functions of the target and the files
\* alone, whatever the order of the entry keys and of the keys taken from
\* the queue; whether the run is stopped in the loop does not depend on the
\* order either; the children of every node are rendered in ascending order
\* of their names.
C12_Deterministic ==
  /\ (pc \in {"rendered", "done"} /\ out # <<>>) =>
       /\ visited = AllVisited
       /\ root_mod = ExpectedTree
       /\ \A k \in AllVisited : ~Stopper(k)
       /\ lib_ts = to_tokens(ExpectedTree, None)
       /\ \A p \in NodePaths(root_mod, <<>>) :
            /\ Ascending(PubNames(BlockOf(lib_ts, p)))
            /\ Range(PubNames(BlockOf(lib_ts, p)))
                 = DOMAIN node_at(root_mod, p).children
  /\ (pc = "done" /\ out # <<>>) =>
       \E text \in {IF reparse_ok(lib_ts) THEN unparse(lib_ts)
                     ELSE to_string(lib_ts)} :
         stdout = target_src \o Separator
                    \o replace(text, UsePat, UseRep) \o <<"\n">>
  /\ (pc = "failed" /\ err \in {"lib_parse", "panic"}) =>
       \E k \in AllVisited : Stopper(k)

\* C12 witness: a finished run over two entry modules that read them in the
\* order main does not take (main reads b before a)
C12_Witness ==
  /\ pc = "done"
  /\ target = Some(T_ab)
  /\ {KeyA, KeyB} \subseteq StoredKeys
  /\ reads[KeyA].at < reads[KeyB].at
  /\ Cardinality(DOMAIN root_mod.children[LibName].children) >= 2

\* C13: a rendered tree that does not parse again does not fail the run: the
\* run falls back to the unformatted text of the same tokens, writes the
\* target text, the separator and that text, and exits with status 0; a run
\* fails only when a fatal cause is present.
C13_Fallback ==
  /\ pc \in {"rendered", "done"} => (fell_back <=> ~reparse_ok(lib_ts))
  /\ (pc \in {"rendered", "done"} /\ fell_back) =>
       /\ lib_ts = to_tokens(root_mod, None)
       /\ EmittedTokens = lib_ts
       /\ err = "none"
  /\ (pc = "done" /\ fell_back) =>
       /\ exit = Some(0)
       /\ stdout = target_src \o Separator \o to_string(lib_ts) \o <<"\n">>
  /\ pc = "failed" => (~fell_back /\ FatalCause)

\* C13 witness: a finished run whose tree had a module named by a keyword
C13_Witness ==
  /\ pc = "done"
  /\ fell_back
  /\ ~reparse_ok(lib_ts)
  /\ stdout # <<>>
  /\ \E k \in StoredKeys : \E i \in DOMAIN k : k[i] \in Keywords

C15_ParentKeys ==
  \A k \in StoredKeys :
    LoadedFile(k) # None =>
      \A u \in SuperUses(parse_file(LoadedFile(k)[1])) :
        ParentKeys(k, u) \subseteq (visited \cup Range(queue))

\* the same for the imports that go up one level only
C15_OneLevel ==
  \A k \in StoredKeys :
    LoadedFile(k) # None =>
      \A u \in SuperUses(parse_file(LoadedFile(k)[1])) :
        ~(u.tree.t = "Path" /\ u.tree.ident = "super") =>
          ParentKeys(k, u) \subseteq (visited \cup Range(queue))

\* C16: after any sequence of inserts the nodes of the tree are the root and
\* the prefixes of the keys inserted, each once; the node at a key of one
\* segment or more holds the text of the last insert at that key, every
\* other node has no text; so an insert changes no other node, an insert at
\* a structural ancestor keeps its children and an insert below a node keeps
\* its text.  An insert at the empty path changes nothing.
C16_InsertFrame ==
  /\ NodePaths(t_mod, <<>>) = Prefixes(LoggedKeys) \cup {<<>>}
  /\ \A p \in NodePaths(t_mod, <<>>) :
       node_at(t_mod, p).code
         = (IF p \in LoggedKeys THEN Some(LastText(p)) ELSE None)

\* C16 witness: text is put at a node after its child, then replaced, and
\* the child's text is still there
C16_Witness ==
  /\ Len(t_log) = 3
  /\ t_log[1].key = <<"a", "b">>
  /\ t_log[2].key = <<"a">>
  /\ t_log[3].key = <<"a">>
  /\ t_log[3].code # t_log[2].code
  /\ node_code(t_mod, <<"a", "b">>) = Some(t_log[1].code)
  /\ node_code(t_mod, <<"a">>) = Some(t_log[3].code)

\* C17: with language rs, submit.rs is written and the clipboard command
\* is started only after the bundler has exited with status 0; with sample
\* checking on, the bundler is run only after the sample test has exited
\* with status 0 (and with checking off the test is not run); a run in
\* which the sample test or the bundler failed ends with a non-zero status
\* and has written no submit.rs and started no clipboard command.
C17_Pipeline ==
  /\ (submit_rs # None \/ clip # None) =>
       /\ language = "rs"
       /\ ac_bundler # None
       /\ ac_bundler[1].spawned
       /\ ac_bundler[1].code = Some(0)
  /\ clip # None => submit_rs = Some(ac_bundler[1].stdout)
  /\ ac_bundler # None =>
       IF is_check THEN ac_test = Some(Exited(0)) ELSE ac_test = None
  /\ (\/ ac_test \notin {None, Some(Exited(0))}
      \/ ac_bundler \notin {None} \cup
            {Some(r) : r \in {x \in BundlerOutcomes : x.code = Some(0)}}) =>
       /\ ac_pc = "exited"
       /\ ac_exit \notin {None, Some(0)}
       /\ submit_rs = None
       /\ clip = None
  /\ ac_exit = Some(0) => (submit_rs # None /\ clip # None)

\* C17 witness: a checked run that passed the samples, bundled, saved and
\* copied
C17_Witness ==
  /\ ac_pc = "exited"
  /\ ac_exit = Some(0)
  /\ is_check
  /\ ac_test = Some(Exited(0))
  /\ submit_rs = Some(Bundled)
  /\ clip # None

\* C18: while the loop runs and when rendering starts, every text stored in
\* the tree has been parsed successfully, so the parse in to_tokens does not
\* fail and no run ends with its panic; a file that does not parse ends the
\* run in the loop; the nodes that hold text are the visited keys whose file
\* could be read, and each holds that file.
C18_RenderParses ==
  /\ pc \in {"loop", "rendered", "done"} =>
       /\ ~to_tokens_panics(root_mod)
       /\ \A k \in StoredKeys : parse_ok(node_code(root_mod, k)[1])
  /\ (pc = "failed" /\ err = "panic") => <<>> \in visited
  /\ (\E k \in StoredKeys : ~parse_ok(fs[reads[k].fp][1])) =>
       (pc = "failed" /\ err = "lib_parse" /\ lib_ts = <<>>)
  /\ {p \in NodePaths(root_mod, <<>>) : node_at(root_mod, p).code # None}
       = {k \in visited :
            k # <<>> /\ read_to_string(fs, lib_file(fs, k)) # None}
  /\ \A k \in visited :
       k # <<>> => node_code(root_mod, k) = read_to_string(fs, lib_file(fs, k))

\* C18 witness: rendering has run over a tree with two texts and a visited
\* key that has none
C18_Witness ==
  /\ pc = "rendered"
  /\ lib_ts # <<>>
  /\ Cardinality(StoredKeys) >= 2
  /\ \E k \in visited : node_code(root_mod, k) = None

\* C19 as stated: every key on the work queue or given to the file resolver
\* has at least one segment and starts with the library root name.
C19_WellFormedKeys ==
  \A k \in Range(queue) \cup visited \cup DOMAIN reads :
    /\ Len(k) >= 1
    /\ k[1] = LibName

\* the same for the keys of the files loaded under a key of two segments or
\* more, and for the entry keys
C19_BelowRootFile ==
  (\A k \in StoredKeys : Len(k) >= 2) =>
    \A k \in Range(queue) \cup visited \cup DOMAIN reads :
      /\ Len(k) >= 1
      /\ k[1] = LibName

====
